---- MODULE Spec2Model ----
(***************************************************************************)
(* Model of the chat controller EmpatheticChatbot (src/unnamed/part_001),  *)
(* its ChatInput (src/src/components/Chatbot/ChatInput.tsx) and the two    *)
(* edge functions get-conversations and chat-with-ai (src/unnamed/part_003)*)
(*                                                                         *)
(* One action is one task of the browser event loop: a DOM event handler,  *)
(* a timer callback, a realtime callback or the continuation of an awaited *)
(* network call, followed by the React render it causes and the effects of *)
(* that render (Commit).  State between two actions is committed state.    *)
(*                                                                         *)
(* Environment (not code of the repository):                               *)
(*  - the realtime client calls the subscribe callback with SUBSCRIBED or  *)
(*    CHANNEL_ERROR any number of times while the channel is not removed   *)
(*    (it rejoins by itself); a removed channel calls back no more;        *)
(*  - @tanstack/react-query runs mutationFn in a microtask after mutate()  *)
(*    returns, keeps query data per key and refetches on key change;       *)
(*  - supabase.functions.invoke() POSTs its body; it adds no query string. *)
(***************************************************************************)
EXTENDS Integers, Sequences, FiniteSets, TLC

(* ------------------------------ bounds --------------------------------- *)
\* conversation ids 1..MaxConv
MaxConv == 2
\* server-assigned message ids 1..MaxRows
MaxRows == 4
\* send attempts (mutations) started in one run
MaxSends == 2
\* cap of retryCountRef in the guards
MaxRetryCount == 4
\* retry timers that lost their handle (retryTimeoutRef overwritten), per conversation
MaxOrphans == 1
\* longest first message of a new conversation
MaxLen == 32
\* rows of the conversation whose history chat-with-ai reads
MaxHistory == 22

(* ------------------------- program constants --------------------------- *)
MAX_RETRIES == 3
TITLE_LIMIT == 30
SERVER_TITLE_LIMIT == 50
HISTORY_LIMIT == 20

(* ------------------------------ values --------------------------------- *)
\* null, for each type that has one
NoConv == 0
NoTimer == 0
NoUrl == << >>
NoFile == "undefined"
NoPending == [message |-> << >>, imageFile |-> "null"]
\* retryTimeoutRef holds the id of a timer that fired or was cleared
Stale == -1
ConvIds == 1..MaxConv
RowIds == 1..MaxRows
SendIds == 1..MaxSends
\* characters are numbers; Space is the one whitespace character, Dot is "."
Space == 0
Dot == 46
Files == {"img.png"}
\* the reply text the language model produces (abstract)
AiReply == <<7>>
\* texts the user can type into ChatInput
InputTexts == {<< >>, <<Space>>, <<1>>}

\* what the user submits in ChatInput: a text alone, or a file under a blank
\* text
Compositions ==
  {<<m, NoFile>> : m \in InputTexts} \cup {<<(<<Space>>), f>> : f \in Files}
\* first messages typed into ConversationStarter: <<1, 2, ..., n>> for a short
\* n and for every n around TITLE_LIMIT up to MaxLen, and a blank one
StarterTexts ==
  {[i \in 1..n |-> i] : n \in {1} \cup ((TITLE_LIMIT - 1)..MaxLen)} \cup {<<Space>>}

VARIABLES currentConversationId, localStorageKey, messages, connectionStatus,
          pendingMessage, subscriptionStatus, retryCountRef, retryTimeoutRef,
          orphanTimers, realtimeChannelRef, channels, channelState, online,
          queryData, fetching, recoveryCalls, sends, sendCount, removalTimers,
          forcedRetryTimers, conversations, db, nextRowId, conversationsStale,
          startMutation, deleteMutation, uploads, invocations, lastEvent,
          stored, context

vars == <<currentConversationId, localStorageKey, messages, connectionStatus,
          pendingMessage, subscriptionStatus, retryCountRef, retryTimeoutRef,
          orphanTimers, realtimeChannelRef, channels, channelState, online,
          queryData, fetching, recoveryCalls, sends, sendCount, removalTimers,
          forcedRetryTimers, conversations, db, nextRowId, conversationsStale,
          startMutation, deleteMutation, uploads, invocations, lastEvent,
          stored, context>>

(* ------------------- the state as one record ---------------------------- *)
\* The handlers below are functions from state records to state records, so
\* that the statements of one handler compose in program order.
\* pendingTouched is transient: setPendingMessage was called with a new object
\* (or null over an object) since the last render.
Cur ==
  [currentConversationId |-> currentConversationId, localStorageKey |-> localStorageKey,
   messages |-> messages, connectionStatus |-> connectionStatus,
   pendingMessage |-> pendingMessage, subscriptionStatus |-> subscriptionStatus,
   retryCountRef |-> retryCountRef, retryTimeoutRef |-> retryTimeoutRef,
   orphanTimers |-> orphanTimers, realtimeChannelRef |-> realtimeChannelRef,
   channels |-> channels, channelState |-> channelState, online |-> online,
   queryData |-> queryData, fetching |-> fetching, recoveryCalls |-> recoveryCalls,
   sends |-> sends, sendCount |-> sendCount, removalTimers |-> removalTimers,
   forcedRetryTimers |-> forcedRetryTimers, conversations |-> conversations,
   db |-> db, nextRowId |-> nextRowId, conversationsStale |-> conversationsStale,
   startMutation |-> startMutation, deleteMutation |-> deleteMutation,
   uploads |-> uploads, invocations |-> invocations, lastEvent |-> lastEvent,
   pendingTouched |-> FALSE]

Install(s) ==
  /\ currentConversationId' = s.currentConversationId
  /\ localStorageKey' = s.localStorageKey
  /\ messages' = s.messages
  /\ connectionStatus' = s.connectionStatus
  /\ pendingMessage' = s.pendingMessage
  /\ subscriptionStatus' = s.subscriptionStatus
  /\ retryCountRef' = s.retryCountRef
  /\ retryTimeoutRef' = s.retryTimeoutRef
  /\ orphanTimers' = s.orphanTimers
  /\ realtimeChannelRef' = s.realtimeChannelRef
  /\ channels' = s.channels
  /\ channelState' = s.channelState
  /\ online' = s.online
  /\ queryData' = s.queryData
  /\ fetching' = s.fetching
  /\ recoveryCalls' = s.recoveryCalls
  /\ sends' = s.sends
  /\ sendCount' = s.sendCount
  /\ removalTimers' = s.removalTimers
  /\ forcedRetryTimers' = s.forcedRetryTimers
  /\ conversations' = s.conversations
  /\ db' = s.db
  /\ nextRowId' = s.nextRowId
  /\ conversationsStale' = s.conversationsStale
  /\ startMutation' = s.startMutation
  /\ deleteMutation' = s.deleteMutation
  /\ uploads' = s.uploads
  /\ invocations' = s.invocations
  /\ lastEvent' = s.lastEvent

\* what the last step was (history, read by the properties only): the handler
\* or callback that ran, the composition submitted to ChatInput and the
\* payload handed to handleSendMessage, NoPending where there was none, the
\* conversation setupRealtimeSubscription was called for, NoConv where it was
\* not called, and the titles of the toasts raised
Event(s, name) ==
  [s EXCEPT !.lastEvent = [name |-> name, request |-> NoPending, sent |-> NoPending,
                           subscribed |-> NoConv, notices |-> {}]]

\* toast({title})
Toast(s, title) == [s EXCEPT !.lastEvent.notices = @ \cup {title}]

(* ----------------------------- messages --------------------------------- *)
ServerId(n) == <<"srv", n>>
OptimisticId(k) == <<"optimistic-user", k>>
TempId(k) == <<"temp", k>>
IsOptimistic(id) == id[1] = "optimistic-user"
IsServerId(id) == id[1] = "srv"

\* the Message a database row is delivered as (payload.new, or a fetched row)
RowMessage(r) == [id |-> ServerId(r.id), role |-> r.role, content |-> r.content, image_url |-> r.image_url]

HasId(msgs, id) == \E i \in 1..Len(msgs) : msgs[i].id = id

\* the INSERT handler without its duplicate check
InsertMessage_Append(prev, newMessage) == Append(prev, newMessage)

\* INSERT handler's updater: prev => prev.some(id) ? prev : [...prev, newMessage]
InsertMessage(prev, newMessage) ==
  IF HasId(prev, newMessage.id) THEN prev ELSE Append(prev, newMessage)

\* UPDATE handler's updater: prev.map(msg => msg.id === updated.id ? updated : msg)
UpdateMessage(prev, updatedMessage) ==
  [i \in 1..Len(prev) |-> IF prev[i].id = updatedMessage.id THEN updatedMessage ELSE prev[i]]

RECURSIVE RemovePlaceholders(_, _)
\* the removal timer's updater: prev.filter(msg => msg.id !== tempMessageId &&
\* !msg.id.startsWith('optimistic-'))
RemovePlaceholders(prev, k) ==
  IF prev = << >> THEN << >>
  ELSE IF Head(prev).id # TempId(k) /\ ~IsOptimistic(Head(prev).id)
       THEN <<Head(prev)>> \o RemovePlaceholders(Tail(prev), k)
       ELSE RemovePlaceholders(Tail(prev), k)

(* ------------------------------ strings --------------------------------- *)
RECURSIVE TrimStart(_)
TrimStart(t) == IF t # << >> /\ Head(t) = Space THEN TrimStart(Tail(t)) ELSE t

RECURSIVE TrimEnd(_)
TrimEnd(t) ==
  IF t # << >> /\ t[Len(t)] = Space THEN TrimEnd(SubSeq(t, 1, Len(t) - 1)) ELSE t

\* String.prototype.trim
Trim(t) == TrimEnd(TrimStart(t))

\* String.prototype.substring(0, n)
Substring0(t, n) == SubSeq(t, 1, IF Len(t) < n THEN Len(t) ELSE n)

Ellipsis == <<Dot, Dot, Dot>>

\* the title rule without its short-message branch
SuggestedTitle_Always(message) == Substring0(message, TITLE_LIMIT) \o Ellipsis

\* startConversationMutation: the title derived from the first message
SuggestedTitle(message) ==
  IF Len(message) <= TITLE_LIMIT THEN message
  ELSE Substring0(message, TITLE_LIMIT) \o Ellipsis

\* chat-with-ai: the title of a conversation created inline
ServerTitle(message) ==
  IF Len(message) > SERVER_TITLE_LIMIT THEN Substring0(message, SERVER_TITLE_LIMIT) \o Ellipsis
  ELSE message

(* ------------------------- edge functions ------------------------------- *)
Undefined == [kind |-> "undefined"]

\* get-conversations: the request's URL query decides which list is returned
GetConversationsHandler(s, req) ==
  IF req.url.conversationId # NoConv
  THEN [kind |-> "messages",
        messages |-> [i \in 1..Len(s.db[req.url.conversationId]) |->
                         RowMessage(s.db[req.url.conversationId][i])]]
  ELSE [kind |-> "conversations", conversations |-> DOMAIN s.conversations]

\* supabase.functions.invoke('get-conversations', {body}): the body travels in
\* the POST body, the URL carries no query string
InvokeGetConversations_InUrl(s, body) ==
  GetConversationsHandler(s, [url |-> [conversationId |-> body.conversationId], body |-> body])

InvokeGetConversations(s, body) ==
  GetConversationsHandler(s, [url |-> [conversationId |-> NoConv], body |-> body])

\* messagesData?.messages is defined
HasMessages(data) == data.kind = "messages"

\* useQuery(['messages', currentConversationId]).data
MessagesData(s) ==
  IF s.currentConversationId = NoConv THEN Undefined
  ELSE s.queryData[s.currentConversationId]

\* useQuery(...).isLoading: no data yet and a fetch in flight
MessagesLoading(s) ==
  /\ s.currentConversationId # NoConv
  /\ s.queryData[s.currentConversationId] = Undefined
  /\ s.currentConversationId \in s.fetching

(* --------------------------- realtime link ------------------------------ *)
\* supabase.removeChannel(realtimeChannelRef.current)
RemoveChannel(s) ==
  [s EXCEPT !.channels[s.realtimeChannelRef] = IF @ > 0 THEN @ - 1 ELSE 0]

\* clearTimeout(retryTimeoutRef.current) when the ref is set
ClearRetryTimeout(s) ==
  IF s.retryTimeoutRef \in ConvIds THEN [s EXCEPT !.retryTimeoutRef = Stale] ELSE s

\* setupRealtimeSubscription(conversationId) up to the subscribe() call
SetupRealtimeSubscription(s, conversationId) ==
  LET s1 == IF s.realtimeChannelRef # NoConv THEN RemoveChannel(s) ELSE s
  IN [s1 EXCEPT !.subscriptionStatus = "inactive",
                !.channels[conversationId] = @ + 1,
                !.realtimeChannelRef = conversationId,
                !.channelState = "joining",
                !.lastEvent.subscribed = conversationId]

\* retryTimeoutRef.current = setTimeout(...): the handle of an earlier timer
\* that is still pending is overwritten, that timer stays scheduled
ScheduleRetry(s, conversationId) ==
  LET s1 == IF s.retryTimeoutRef \in ConvIds
            THEN [s EXCEPT !.orphanTimers[s.retryTimeoutRef] = @ + 1]
            ELSE s
  IN [s1 EXCEPT !.retryTimeoutRef = conversationId]

\* subscribe callback, status SUBSCRIBED
OnSubscribed(s) ==
  [s EXCEPT !.subscriptionStatus = "active", !.connectionStatus = "connected"]

\* subscribe callback, status CHANNEL_ERROR, of the channel set up for conversationId
OnChannelError(s, conversationId) ==
  LET s1 == [s EXCEPT !.subscriptionStatus = "error"]
  IN IF s1.retryCountRef < MAX_RETRIES THEN ScheduleRetry(s1, conversationId)
     ELSE Toast(s1, "Connection error")

\* the retry timer's callback
RetryCallback(s, conversationId) ==
  SetupRealtimeSubscription(
    [s EXCEPT !.retryCountRef = @ + 1, !.connectionStatus = "reconnecting"],
    conversationId)

(* ----------------------- chat-with-ai: history ------------------------- *)
\* stored: the rows of one conversation of the messages table, each named by
\* its created_at; context: the history chat-with-ai last composed
RECURSIVE OrderAscending(_)
\* .order('created_at', { ascending: true })
OrderAscending(rows) ==
  IF rows = {} THEN << >>
  ELSE LET first == CHOOSE r \in rows : \A q \in rows : r <= q
       IN <<first>> \o OrderAscending(rows \ {first})

\* .limit(n): the first n rows of the ordered result
Limit(rows, n) == SubSeq(rows, 1, IF Len(rows) < n THEN Len(rows) ELSE n)

\* the history query of chat-with-ai
HistoryQuery(rows) == Limit(OrderAscending(rows), HISTORY_LIMIT)

(* ------------------------------ effects --------------------------------- *)
\* the responder invocation of the missing-response effect
RecoveryBody(s) ==
  [message |-> s.messages[Len(s.messages)].content,
   conversationId |-> s.currentConversationId,
   imageUrl |-> s.messages[Len(s.messages)].image_url,
   isRetry |-> TRUE]

\* the missing-response effect's condition, on the state of the render
MissingResponse(s) ==
  /\ HasMessages(MessagesData(s))
  /\ ~MessagesLoading(s)
  /\ Len(s.messages) > 0
  /\ s.messages[Len(s.messages)].role = "user"

\* useEffect [pendingMessage, currentConversationId, subscriptionStatus, toast]:
\* its cleanup runs when a dependency changed between render o and render n
MonitorEffect(o, n, s) ==
  IF \/ n.pendingTouched
     \/ n.currentConversationId # o.currentConversationId
     \/ n.subscriptionStatus # o.subscriptionStatus
  THEN ClearRetryTimeout(s) ELSE s

\* useEffect [currentConversationId]: cleanup of the previous run, then the body
SubscriptionEffect(o, n, s) ==
  IF n.currentConversationId = o.currentConversationId THEN s
  ELSE LET c1 == IF o.currentConversationId # NoConv /\ s.realtimeChannelRef # NoConv
                 THEN [RemoveChannel(s) EXCEPT !.realtimeChannelRef = NoConv,
                                               !.channelState = "closed"]
                 ELSE s
       IN IF n.currentConversationId = NoConv
          THEN IF c1.realtimeChannelRef # NoConv
               THEN [RemoveChannel(c1) EXCEPT !.realtimeChannelRef = NoConv,
                                              !.channelState = "closed",
                                              !.subscriptionStatus = "inactive"]
               ELSE c1
          ELSE SetupRealtimeSubscription([c1 EXCEPT !.retryCountRef = 0],
                                         n.currentConversationId)

\* useEffect [currentConversationId]: persist the id to localStorage
PersistEffect(o, n, s) ==
  IF n.currentConversationId = o.currentConversationId THEN s
  ELSE [s EXCEPT !.localStorageKey = n.currentConversationId]

\* the query observer: a new key with the query enabled starts a fetch
QueryObserver(o, n, s) ==
  IF n.currentConversationId # o.currentConversationId /\ n.currentConversationId # NoConv
  THEN [s EXCEPT !.fetching = @ \cup {n.currentConversationId}] ELSE s

\* useEffect [messagesData, currentConversationId]: copy the fetched list
SyncEffect(o, n, s) ==
  IF MessagesData(n) = MessagesData(o) /\ n.currentConversationId = o.currentConversationId
  THEN s
  ELSE IF HasMessages(MessagesData(n)) THEN [s EXCEPT !.messages = MessagesData(n).messages]
       ELSE IF n.currentConversationId = NoConv THEN [s EXCEPT !.messages = << >>]
       ELSE s

\* a missing-response effect that does not wait for the load
MissingResponseEffect_NoLoad(o, n, s) ==
  IF /\ n.messages # o.messages
     /\ Len(n.messages) > 0
     /\ n.messages[Len(n.messages)].role = "user"
  THEN Toast([s EXCEPT !.recoveryCalls = Append(@, RecoveryBody(n))],
             "Retrieving AI response")
  ELSE s

\* useEffect [messagesData, currentConversationId, messagesLoading, messages, toast]
MissingResponseEffect(o, n, s) ==
  IF /\ \/ MessagesData(n) # MessagesData(o)
        \/ n.currentConversationId # o.currentConversationId
        \/ MessagesLoading(n) # MessagesLoading(o)
        \/ n.messages # o.messages
     /\ MissingResponse(n)
  THEN Toast([s EXCEPT !.recoveryCalls = Append(@, RecoveryBody(n))],
             "Retrieving AI response")
  ELSE s

\* the observer hands the latest options (onSuccess, onError) to its current
\* mutation while that mutation is pending
ObserverOptions(n, s) ==
  IF s.sendCount > 0 /\ s.sends[s.sendCount].pc \in {"upload", "typing", "invoke"}
  THEN [s EXCEPT !.sends[s.sendCount].cbConv = n.currentConversationId]
  ELSE s

\* the effects of render n after render o, in declaration order
Effects(o, n) ==
  LET e1 == MonitorEffect(o, n, n)
      e2 == SubscriptionEffect(o, n, e1)
      e3 == PersistEffect(o, n, e2)
      e4 == QueryObserver(o, n, e3)
      e5 == SyncEffect(o, n, e4)
      e6 == MissingResponseEffect(o, n, e5)
  IN ObserverOptions(n, [e6 EXCEPT !.pendingTouched = FALSE])

\* render after a handler that turned committed state o into n, and the
\* second render caused by the state the effects of the first one set
Commit(o, n) ==
  LET r1 == [n EXCEPT !.pendingTouched = FALSE]
      a1 == Effects(o, n)
  IN Effects(r1, a1)

(* ---------------------------- send pipeline ----------------------------- *)
IdleSend ==
  [pc |-> "idle", message |-> << >>, imageFile |-> NoFile, conv |-> NoConv,
   imageUrl |-> NoUrl, cbConv |-> NoConv, overlapped |-> FALSE, replay |-> FALSE]

\* the public URL of an uploaded file (abstract)
PublicUrl(file) == <<"url", file>>

Payload(message, imageFile) == [message |-> message, imageFile |-> imageFile]

\* setPendingMessage(v)
SetPendingMessage(s, v) ==
  [s EXCEPT !.pendingMessage = v,
            !.pendingTouched = @ \/ v # NoPending \/ s.pendingMessage # NoPending]

\* sendMessageMutation.isPending
SendPending(s) ==
  s.sendCount > 0 /\ s.sends[s.sendCount].pc \in {"queued", "upload", "typing", "invoke"}

\* mutation k has started and not yet settled
InFlight(s, k) == s.sends[k].pc \in {"queued", "upload", "typing", "invoke"}

\* history: every mutation in flight other than k has shared its time in
\* flight with another writer of pendingMessage
MarkOverlapped(s, k) ==
  [s EXCEPT !.sends = [j \in DOMAIN @ |->
                         IF j # k /\ InFlight(s, j)
                         THEN [@[j] EXCEPT !.overlapped = TRUE] ELSE @[j]]]

\* the events that replay a held payload: handleRetryMessage from a click, the
\* online handler, handleRetryMessage from the timer of handleForceReconnect
RetryEvents == {"handleRetryMessage", "handleOnlineStatus", "forcedRetry"}

\* sendMessageMutation.mutate({message, imageFile}): a new mutation, whose
\* mutationFn closes over the currentConversationId of the latest render
Mutate(s, message, imageFile) ==
  [MarkOverlapped(s, 0) EXCEPT
            !.sendCount = @ + 1,
            !.sends[s.sendCount + 1] =
               [pc |-> "queued", message |-> message, imageFile |-> imageFile,
                conv |-> s.currentConversationId, imageUrl |-> NoUrl,
                cbConv |-> s.currentConversationId,
                overlapped |-> \E j \in DOMAIN s.sends : InFlight(s, j),
                replay |-> s.lastEvent.name \in RetryEvents]]

\* handleSendMessage(message, imageFile)
HandleSendMessage(s, message, imageFile) ==
  LET s1 == [s EXCEPT !.lastEvent.sent = Payload(message, imageFile)]
  IN IF ~s1.online
     THEN Toast(SetPendingMessage(MarkOverlapped(s1, 0), Payload(message, imageFile)),
                "You're offline")
     ELSE Mutate(s1, message, imageFile)

\* mutationFn: the optimistic user message is appended
OptimisticInsert(s, k, imageUrl) ==
  [s EXCEPT !.messages = Append(@, [id |-> OptimisticId(k), role |-> "user",
                                    content |-> s.sends[k].message,
                                    image_url |-> imageUrl]),
            !.sends[k].imageUrl = imageUrl,
            !.sends[k].pc = "typing"]

\* mutationFn from its start to its first await
MutationFnStart(s, k) ==
  LET s1 == SetPendingMessage(s, Payload(s.sends[k].message, s.sends[k].imageFile))
  IN IF s.sends[k].imageFile # NoFile
     THEN [s1 EXCEPT !.sends[k].pc = "upload", !.uploads = @ + 1]
     ELSE OptimisticInsert(s1, k, NoUrl)

\* the microtask in which a mutation started by this task runs its mutationFn
RunQueued(s) ==
  IF s.sendCount > 0 /\ s.sends[s.sendCount].pc = "queued"
  THEN MutationFnStart(s, s.sendCount) ELSE s

\* a failure path that also drops the held payload
SendFailed_ClearsPending(s, k) ==
  [s EXCEPT !.sends[k].pc = "failed", !.sends[k].overlapped = FALSE,
            !.pendingMessage = NoPending]

\* mutationFn's catch, then onError: the catch always raises its toast, onError
\* raises one when navigator.onLine
SendFailed(s, k) ==
  LET s1 == Toast([s EXCEPT !.sends[k].pc = "failed", !.sends[k].overlapped = FALSE],
                  "Message failed to send")
  IN IF s.online THEN Toast(s1, "Error") ELSE s1

\* an upload whose failure is noticed after the optimistic insert
AfterUpload_InsertsFirst(s, k, ok) ==
  IF ok THEN OptimisticInsert(s, k, PublicUrl(s.sends[k].imageFile))
  ELSE SendFailed(OptimisticInsert(s, k, NoUrl), k)

\* mutationFn after the upload returned
AfterUpload(s, k, ok) ==
  IF ok THEN OptimisticInsert(s, k, PublicUrl(s.sends[k].imageFile))
  ELSE SendFailed(s, k)

\* mutationFn after the 300 ms delay: the typing placeholder, then the invoke
AfterTypingDelay(s, k) ==
  [s EXCEPT !.messages = Append(@, [id |-> TempId(k), role |-> "assistant",
                                    content |-> << >>, image_url |-> NoUrl]),
            !.sends[k].pc = "invoke",
            !.invocations = @ + 1]

\* the smallest conversation id not in use
FreshConv(s) == CHOOSE c \in ConvIds \ DOMAIN s.conversations :
                   \A d \in ConvIds \ DOMAIN s.conversations : c <= d

\* conversations.insert({title}).select().single()
CreateConversation(s, id, title) ==
  [s EXCEPT !.conversations = [c \in DOMAIN @ \cup {id} |-> IF c = id THEN title ELSE @[c]]]

\* messages.insert(row): the foreign key rejects a row of a deleted conversation
InsertRow(s, conversationId, role, content, imageUrl) ==
  IF conversationId \in DOMAIN s.conversations
  THEN [s EXCEPT !.db[conversationId] =
                    Append(@, [id |-> s.nextRowId, role |-> role, content |-> content,
                               image_url |-> imageUrl]),
                 !.nextRowId = @ + 1]
  ELSE s

\* chat-with-ai after the model replied: the conversation id it answers with
ChatWithAiConversation(s, body) ==
  IF body.conversationId = NoConv THEN FreshConv(s) ELSE body.conversationId

\* chat-with-ai after the model replied: create the conversation, save both rows
ChatWithAiPersist(s, body) ==
  LET final == ChatWithAiConversation(s, body)
      s1 == IF body.conversationId = NoConv
            THEN CreateConversation(s, final, ServerTitle(body.message))
            ELSE s
      s2 == InsertRow(s1, final, "user", body.message, body.imageUrl)
  IN InsertRow(s2, final, "assistant", AiReply, NoUrl)

\* the body mutationFn invokes chat-with-ai with
SendBody(s, k) ==
  [message |-> s.sends[k].message, conversationId |-> s.sends[k].conv,
   imageUrl |-> s.sends[k].imageUrl]

\* sendMessageMutation.onSuccess
OnSendSuccess(s, k, conversationId) ==
  LET s1 == IF conversationId # s.sends[k].cbConv
            THEN [s EXCEPT !.currentConversationId = conversationId] ELSE s
  IN [s1 EXCEPT !.conversationsStale = TRUE]

\* a success path that schedules no removal of the placeholders
AfterInvokeOk_NoRemoval(s, k, conversationId) ==
  LET s1 == SetPendingMessage(MarkOverlapped(s, k), NoPending)
      s2 == [s1 EXCEPT !.sends[k].pc = "ok", !.sends[k].overlapped = FALSE]
  IN OnSendSuccess(s2, k, conversationId)

\* mutationFn after the invoke returned without error, then onSuccess
AfterInvokeOk(s, k, conversationId) ==
  LET s1 == SetPendingMessage(MarkOverlapped(s, k), NoPending)
      s2 == [s1 EXCEPT !.removalTimers = @ \cup {k}, !.sends[k].pc = "ok",
                       !.sends[k].overlapped = FALSE]
  IN OnSendSuccess(s2, k, conversationId)

\* handleRetryMessage as a closure over the pendingMessage of its render
HandleRetryMessage(s, closurePending) ==
  IF closurePending # NoPending
  THEN HandleSendMessage(SetPendingMessage(s, NoPending),
                         closurePending.message, closurePending.imageFile)
  ELSE s

\* an online handler that drops the held payload instead of sending it
HandleOnlineStatus_NoReplay(s) ==
  [SetPendingMessage(s, NoPending) EXCEPT !.connectionStatus = "connected"]

HandleOnlineStatus_AlwaysResubscribes(s) ==
  LET s1 == [s EXCEPT !.connectionStatus = "connected"]
      s2 == IF s.pendingMessage # NoPending
            THEN SetPendingMessage(
                   HandleSendMessage(Toast(s1, "Connection restored"),
                                     s.pendingMessage.message, s.pendingMessage.imageFile),
                   NoPending)
            ELSE s1
  IN IF s.currentConversationId # NoConv
     THEN SetupRealtimeSubscription(s2, s.currentConversationId)
     ELSE s2

\* handleOnlineStatus
HandleOnlineStatus(s) ==
  LET s1 == [s EXCEPT !.connectionStatus = "connected"]
      s2 == IF s.pendingMessage # NoPending
            THEN SetPendingMessage(
                   HandleSendMessage(Toast(s1, "Connection restored"),
                                     s.pendingMessage.message, s.pendingMessage.imageFile),
                   NoPending)
            ELSE s1
  IN IF s.subscriptionStatus = "error" /\ s.currentConversationId # NoConv
     THEN SetupRealtimeSubscription(s2, s.currentConversationId)
     ELSE s2

\* handleOfflineStatus
HandleOfflineStatus(s) ==
  Toast([s EXCEPT !.connectionStatus = "disconnected"], "Connection lost")

\* handleForceReconnect; the delayed handleRetryMessage keeps this render's
\* pendingMessage
HandleForceReconnect(s) ==
  LET s1 == [s EXCEPT !.connectionStatus = "reconnecting"]
      s2 == IF s.currentConversationId # NoConv
            THEN SetupRealtimeSubscription(s1, s.currentConversationId) ELSE s1
  IN IF s.pendingMessage # NoPending
     THEN [s2 EXCEPT !.forcedRetryTimers = @ \cup {s.pendingMessage}]
     ELSE s2

\* ChatInput without its early return
ChatInputSend_NoGuard(s, message, imageFile) == HandleSendMessage(s, message, imageFile)

\* ChatInput.handleSendMessage: the early return, then onSendMessage
ChatInputSend(s, message, imageFile) ==
  IF Trim(message) = << >> /\ imageFile = NoFile THEN s
  ELSE HandleSendMessage(s, message, imageFile)

\* ChatInput accepts input: not isLoading, not isDisabled, a conversation shown
ChatInputEnabled(s) ==
  /\ s.currentConversationId # NoConv
  /\ ~SendPending(s)
  /\ s.connectionStatus = "connected"

(* ------------------------ conversation lifecycle ------------------------ *)
\* handleSelectConversation
HandleSelectConversation(s, conversationId) ==
  [s EXCEPT !.currentConversationId = conversationId, !.localStorageKey = conversationId]

\* handleNewConversation
HandleNewConversation(s) ==
  [s EXCEPT !.currentConversationId = NoConv, !.messages = << >>, !.localStorageKey = NoConv]

\* an onSuccess that refreshes the list and keeps the selection
OnDeleteSuccess_KeepsSelection(s) == [s EXCEPT !.conversationsStale = TRUE]

\* deleteConversationMutation.onSuccess
OnDeleteSuccess(s) ==
  Toast([s EXCEPT !.currentConversationId = NoConv, !.messages = << >>,
                  !.localStorageKey = NoConv, !.conversationsStale = TRUE],
        "Success")

\* conversations.delete().eq('id', id), messages removed by ON DELETE CASCADE
DeleteConversationRow(s, id) ==
  [s EXCEPT !.conversations = [c \in DOMAIN @ \ {id} |-> @[c]], !.db[id] = << >>]

\* startConversationMutation.onSuccess
OnStartSuccess(s, conversationId) == [s EXCEPT !.currentConversationId = conversationId]

\* startConversationMutation when no creation is in flight
IdleStart == [pc |-> "idle", message |-> << >>, title |-> << >>, id |-> NoConv]

(* ------------------------------- initial -------------------------------- *)
InitialTitle == <<1>>
\* the h rows a conversation holds at start, ids from first on: none, a user
\* turn, a user turn and its reply
InitialRows(first, h) ==
  [i \in 1..h |-> [id |-> first + i - 1, role |-> IF i = 1 THEN "user" ELSE "assistant",
                   content |-> IF i = 1 THEN <<1>> ELSE AiReply, image_url |-> NoUrl]]

\* the state after the first render and its effects, with n conversations
\* stored, h rows in conversation 1, g rows in conversation 2 and c read from
\* localStorage: the
\* subscription effect has set up its channel, the messages query has started
InitState(n, h, g, c) ==
  /\ conversations = [i \in 1..n |-> InitialTitle]
  /\ db = [i \in ConvIds |-> IF i = 1 THEN InitialRows(1, h)
                             ELSE IF i = 2 THEN InitialRows(h + 1, g) ELSE << >>]
  /\ nextRowId = h + g + 1
  /\ currentConversationId = c
  /\ localStorageKey = c
  /\ messages = << >>
  /\ connectionStatus = "connected"
  /\ pendingMessage = NoPending
  /\ subscriptionStatus = "inactive"
  /\ retryCountRef = 0
  /\ retryTimeoutRef = NoTimer
  /\ orphanTimers = [i \in ConvIds |-> 0]
  /\ realtimeChannelRef = c
  /\ channels = [i \in ConvIds |-> IF i = c THEN 1 ELSE 0]
  /\ channelState = IF c = NoConv THEN "closed" ELSE "joining"
  /\ online = TRUE
  /\ queryData = [i \in ConvIds |-> Undefined]
  /\ fetching = IF c = NoConv THEN {} ELSE {c}
  /\ recoveryCalls = << >>
  /\ sends = [k \in SendIds |-> IdleSend]
  /\ sendCount = 0
  /\ removalTimers = {}
  /\ forcedRetryTimers = {}
  /\ conversationsStale = FALSE
  /\ startMutation = IdleStart
  /\ deleteMutation = NoConv
  /\ uploads = 0
  /\ invocations = 0
  /\ lastEvent = [name |-> "mount", request |-> NoPending, sent |-> NoPending,
                  subscribed |-> c, notices |-> {}]
  /\ stored = {}
  /\ context = << >>

Init ==
  \E n \in 0..MaxConv, h \in 0..2 :
    \E c \in {NoConv} \cup (1..n) : (h > 0 => n > 0) /\ InitState(n, h, 0, c)

\* every conversation exists, none holds rows, the first is open
OpenInit == InitState(MaxConv, 0, 0, 1)

\* every conversation exists, the first two hold rows, any or none is open
StoredInit ==
  \E h \in 0..2, g \in 0..1, c \in {NoConv} \cup ConvIds : InitState(MaxConv, h, g, c)

(* ------------------------------- actions -------------------------------- *)
\* from the state s a handler left: the mutationFn it started, then the
\* render that follows and its effects
Step(s) == Install(Commit(Cur, RunQueued(s))) /\ UNCHANGED <<stored, context>>

\* room for one more mutation
CanSend == sendCount < MaxSends

\* showTransition: the ConversationTransition overlay covers the screen from
\* the start of startConversationMutation to the timer of its onSuccess, and
\* nothing under it can be clicked
ShowTransition == startMutation.pc # "idle"

\* the user picks a conversation in ConversationList
SelectConversation(c) ==
  /\ c \in DOMAIN conversations
  /\ c # currentConversationId
  /\ ~ShowTransition
  /\ Step(LET s == Event(Cur, "handleSelectConversation") IN HandleSelectConversation(s, c))

\* the user clicks "new conversation"
NewConversation ==
  /\ currentConversationId # NoConv
  /\ ~ShowTransition
  /\ Step(HandleNewConversation(Event(Cur, "handleNewConversation")))

\* the realtime client reports SUBSCRIBED for a live channel of conversation c
Subscribed(c) ==
  /\ channels[c] > 0
  /\ c = realtimeChannelRef => channelState # "joined"
  /\ Step(LET s == Event(Cur, "SUBSCRIBED") IN IF c = s.realtimeChannelRef
                     THEN [OnSubscribed(s) EXCEPT !.channelState = "joined"]
                     ELSE OnSubscribed(s))

\* the realtime client reports CHANNEL_ERROR for a live channel of conversation c
ChannelError(c) ==
  /\ channels[c] > 0
  /\ (retryCountRef < MAX_RETRIES /\ retryTimeoutRef \in ConvIds)
        => orphanTimers[retryTimeoutRef] < MaxOrphans
  /\ Step(LET s == Event(Cur, "CHANNEL_ERROR") IN IF c = s.realtimeChannelRef
                     THEN [OnChannelError(s, c) EXCEPT !.channelState = "errored"]
                     ELSE OnChannelError(s, c))

\* the retry timer retryTimeoutRef refers to fires
RetryTimerFires ==
  /\ retryTimeoutRef \in ConvIds
  /\ retryCountRef < MaxRetryCount
  /\ Step(LET s == Event(Cur, "retryTimer") IN RetryCallback([s EXCEPT !.retryTimeoutRef = Stale], s.retryTimeoutRef))

\* a retry timer whose handle was overwritten fires
OrphanTimerFires(c) ==
  /\ orphanTimers[c] > 0
  /\ retryCountRef < MaxRetryCount
  /\ Step(LET s == Event(Cur, "orphanTimer") IN RetryCallback([s EXCEPT !.orphanTimers[c] = @ - 1], c))

\* the handler of the INSERT event
OnInsert(s, newMessage) ==
  LET s1 == [s EXCEPT !.messages = InsertMessage(@, newMessage), !.retryCountRef = 0]
  IN IF newMessage.role = "assistant" THEN Toast(s1, "AI Response") ELSE s1

\* the handler of the UPDATE event
OnUpdate(s, updatedMessage) ==
  [s EXCEPT !.messages = UpdateMessage(@, updatedMessage)]

\* the channel delivers INSERT for row i of conversation c, in any order and
\* any number of times
InsertEvent(c, i) ==
  /\ channels[c] > 0
  /\ c = realtimeChannelRef => channelState = "joined"
  /\ i \in 1..Len(db[c])
  /\ Step(LET s == Event(Cur, "INSERT") IN OnInsert(s, RowMessage(s.db[c][i])))

\* the channel delivers, in commit order, INSERT for the first row of
\* conversation c the store does not hold
InsertNextEvent(c) ==
  /\ channels[c] > 0
  /\ c = realtimeChannelRef => channelState = "joined"
  /\ \E i \in 1..Len(db[c]) :
        /\ ~HasId(messages, ServerId(db[c][i].id))
        /\ \A j \in 1..(i - 1) : HasId(messages, ServerId(db[c][j].id))
        /\ Step(LET s == Event(Cur, "INSERT") IN OnInsert(s, RowMessage(s.db[c][i])))

UpdatedText == <<8>>

\* row i of conversation c is updated and the channel delivers UPDATE
UpdateEvent(c, i) ==
  /\ channels[c] > 0
  /\ c = realtimeChannelRef => channelState = "joined"
  /\ i \in 1..Len(db[c])
  /\ Step(LET s == Event(Cur, "UPDATE") IN OnUpdate([s EXCEPT !.db[c][i].content = UpdatedText],
                              RowMessage([s.db[c][i] EXCEPT !.content = UpdatedText])))

\* window 'online'
OnlineEvent ==
  /\ ~online
  /\ pendingMessage # NoPending => CanSend
  /\ Step(LET s == Event(Cur, "handleOnlineStatus") IN HandleOnlineStatus([s EXCEPT !.online = TRUE]))

\* window 'offline'
OfflineEvent ==
  /\ online
  /\ Step(LET s == Event(Cur, "handleOfflineStatus") IN HandleOfflineStatus([s EXCEPT !.online = FALSE]))

\* a click on one of the Reconnect buttons; one delayed retry per payload is
\* kept at a time
ForceReconnect ==
  /\ \/ connectionStatus # "connected"
     \/ currentConversationId # NoConv /\ subscriptionStatus = "error"
  /\ pendingMessage \notin forcedRetryTimers
  /\ ~ShowTransition
  /\ Step(HandleForceReconnect(Event(Cur, "handleForceReconnect")))

\* the 1000 ms timer of handleForceReconnect fires
ForcedRetryFires ==
  /\ CanSend
  /\ \E p \in forcedRetryTimers :
       Step(LET s == Event(Cur, "forcedRetry") IN HandleRetryMessage([s EXCEPT !.forcedRetryTimers = @ \ {p}], p))

\* a click on "Retry message"
RetryClick ==
  /\ currentConversationId # NoConv
  /\ pendingMessage # NoPending
  /\ connectionStatus = "connected"
  /\ CanSend
  /\ ~ShowTransition
  /\ Step(LET s == Event(Cur, "handleRetryMessage") IN HandleRetryMessage(s, s.pendingMessage))

\* Enter or the send button in ChatInput with the composition (message, imageFile)
UserSend(message, imageFile) ==
  /\ ChatInputEnabled(Cur)
  /\ CanSend
  /\ ~ShowTransition
  /\ Step(LET s == Event(Cur, "ChatInput.handleSendMessage") IN ChatInputSend([s EXCEPT !.lastEvent.request = Payload(message, imageFile)],
                                    message, imageFile))

\* the storage upload of send k returns
UploadReturns(k, ok) ==
  /\ sends[k].pc = "upload"
  /\ Step(LET s == Event(Cur, "uploadReturns") IN AfterUpload(s, k, ok))

\* the 300 ms delay of send k elapses: typing placeholder and invoke
TypingDelayElapses(k) ==
  /\ sends[k].pc = "typing"
  /\ Step(LET s == Event(Cur, "typingDelay") IN AfterTypingDelay(s, k))

\* chat-with-ai answers send k: "ok", "error" (the model call failed, nothing
\* was saved) or "lost" (the rows were saved, the response did not arrive)
ResponderReturns(k, outcome) ==
  /\ sends[k].pc = "invoke"
  /\ outcome # "error" => nextRowId + 1 <= MaxRows
  /\ (outcome # "error" /\ sends[k].conv = NoConv) => DOMAIN conversations # ConvIds
  /\ Step(LET s == Event(Cur, "responderReturns") IN CASE outcome = "ok" ->
                            AfterInvokeOk(ChatWithAiPersist(s, SendBody(s, k)), k,
                                          ChatWithAiConversation(s, SendBody(s, k)))
                       [] outcome = "lost" -> SendFailed(ChatWithAiPersist(s, SendBody(s, k)), k)
                       [] OTHER -> SendFailed(s, k))

\* the 500 ms removal timer of send k fires
RemovalTimerFires(k) ==
  /\ k \in removalTimers
  /\ Step(LET s == Event(Cur, "removalTimer") IN [s EXCEPT !.removalTimers = @ \ {k},
                               !.messages = RemovePlaceholders(@, k)])

\* the messages query of conversation c returns
FetchReturns(c, ok) ==
  /\ c \in fetching
  /\ Step(LET s == Event(Cur, "messagesQuery") IN IF ok
                     THEN [s EXCEPT !.fetching = @ \ {c},
                                    !.queryData[c] = InvokeGetConversations(s, [conversationId |-> c])]
                     ELSE [s EXCEPT !.fetching = @ \ {c}])

\* the invalidated conversations query is fetched again
ConversationsRefetched ==
  /\ conversationsStale
  /\ Step(LET s == Event(Cur, "conversationsQuery") IN [s EXCEPT !.conversationsStale = FALSE])

\* ConversationStarter submits the first message
StartConversation(message) ==
  /\ currentConversationId = NoConv
  /\ startMutation.pc = "idle"
  /\ Trim(message) # << >>
  /\ Step(LET s == Event(Cur, "handleStartConversation") IN [s EXCEPT !.startMutation =
                         [pc |-> "inserting", message |-> message,
                          title |-> SuggestedTitle(message), id |-> NoConv]])

\* the insert of the conversation row returns
StartInsertReturns(ok) ==
  /\ startMutation.pc = "inserting"
  /\ ok => DOMAIN conversations # ConvIds
  /\ Step(LET s == Event(Cur, "startInsertReturns") IN IF ok
                     THEN [CreateConversation(s, FreshConv(s), s.startMutation.title)
                             EXCEPT !.startMutation.pc = "animating",
                                    !.startMutation.id = FreshConv(s)]
                     ELSE Toast([s EXCEPT !.startMutation = IdleStart], "Error"))

\* the 1800 ms animation wait elapses: mutationFn returns, onSuccess runs
StartAnimationDone ==
  /\ startMutation.pc = "animating"
  /\ Step(LET s == Event(Cur, "startSuccess") IN [OnStartSuccess(s, s.startMutation.id) EXCEPT !.startMutation.pc = "hiding"])

\* the 500 ms timer of onSuccess: the conversations query is invalidated
StartHideTimerFires ==
  /\ startMutation.pc = "hiding"
  /\ Step(LET s == Event(Cur, "startHideTimer") IN [s EXCEPT !.startMutation = IdleStart, !.conversationsStale = TRUE])

\* the user confirms the deletion of the conversation shown
DeleteConversation ==
  /\ currentConversationId # NoConv
  /\ deleteMutation = NoConv
  /\ ~ShowTransition
  /\ Step(LET s == Event(Cur, "handleDeleteConversation") IN [s EXCEPT !.deleteMutation = s.currentConversationId])

\* the delete of the conversation row returns
DeleteReturns(ok) ==
  /\ deleteMutation # NoConv
  /\ Step(LET s == Event(Cur, "deleteReturns") IN IF ok
                     THEN [OnDeleteSuccess(DeleteConversationRow(s, s.deleteMutation))
                             EXCEPT !.deleteMutation = NoConv]
                     ELSE Toast([s EXCEPT !.deleteMutation = NoConv], "Error"))

(* --------------------------- specifications ----------------------------- *)
\* Each specification lets the environment raise the events of one part of the
\* controller; every action is the whole handler whichever specification
\* takes it.

\* the realtime link: subscription, backoff timers, browser online/offline
LinkNext ==
  \/ \E c \in ConvIds : SelectConversation(c)
  \/ NewConversation
  \/ \E c \in ConvIds : Subscribed(c)
  \/ \E c \in ConvIds : ChannelError(c)
  \/ RetryTimerFires
  \/ \E c \in ConvIds : OrphanTimerFires(c)
  \/ \E c \in ConvIds : InsertNextEvent(c)
  \/ OnlineEvent
  \/ OfflineEvent
  \/ ForceReconnect

LinkSpec == Init /\ [][LinkNext]_vars

\* the timer retryTimeoutRef refers to is no longer scheduled: it fired
\* (RetryTimerFires) or a cleanup cleared it
RetryTimerGone == retryTimeoutRef \in ConvIds /\ retryTimeoutRef' = Stale

\* the handshake of the channel the reference holds is answered, or the
\* channel is removed
HandshakeAnswered ==
  channelState = "joining" /\ channelState' \in {"joined", "errored", "closed"}

\* a scheduled timer does not stay scheduled for ever, a handshake does not
\* stay unanswered for ever
LinkFairSpec ==
  LinkSpec /\ WF_retryTimeoutRef(RetryTimerGone) /\ WF_channelState(HandshakeAnswered)

\* the message store: one-shot load and realtime events
StoreNext ==
  \/ \E c \in ConvIds : SelectConversation(c)
  \/ NewConversation
  \/ \E c \in ConvIds : Subscribed(c)
  \/ \E c \in ConvIds, i \in RowIds : InsertEvent(c, i)
  \/ \E c \in ConvIds, i \in RowIds : UpdateEvent(c, i)
  \/ \E c \in ConvIds, ok \in BOOLEAN : FetchReturns(c, ok)

StoreSpec == StoredInit /\ [][StoreNext]_vars

\* the send pipeline: composition, upload, invoke, retry and replay
SendNext ==
  \/ \E c \in Compositions : UserSend(c[1], c[2])
  \/ \E k \in SendIds, ok \in BOOLEAN : UploadReturns(k, ok)
  \/ \E k \in SendIds : TypingDelayElapses(k)
  \/ \E k \in SendIds, outcome \in {"ok", "error", "lost"} : ResponderReturns(k, outcome)
  \/ \E k \in SendIds : RemovalTimerFires(k)
  \/ ForcedRetryFires
  \/ RetryClick
  \/ OnlineEvent
  \/ OfflineEvent
  \/ ForceReconnect
  \/ \E c \in ConvIds : Subscribed(c)

SendSpec == OpenInit /\ [][SendNext]_vars

\* starting and deleting conversations
LifecycleNext ==
  \/ \E m \in StarterTexts : StartConversation(m)
  \/ \E ok \in BOOLEAN : StartInsertReturns(ok)
  \/ StartAnimationDone
  \/ StartHideTimerFires
  \/ DeleteConversation
  \/ \E ok \in BOOLEAN : DeleteReturns(ok)
  \/ ConversationsRefetched
  \/ \E c \in ConvIds : SelectConversation(c)
  \/ NewConversation
  \/ \E c \in ConvIds : Subscribed(c)
  \/ \E c \in ConvIds : InsertNextEvent(c)

LifecycleSpec == Init /\ [][LifecycleNext]_vars

\* a stored conversation is open and loading while the user sends and the
\* channel delivers
RecoveryInit == \E h \in 0..2 : InitState(MaxConv, h, 0, 1)

RecoveryNext ==
  \/ \E ok \in BOOLEAN : FetchReturns(1, ok)
  \/ Subscribed(1)
  \/ InsertNextEvent(1)
  \/ UpdateEvent(1, Len(db[1]))
  \/ UserSend(<<1>>, NoFile)
  \/ \E k \in SendIds : TypingDelayElapses(k)
  \/ \E k \in SendIds, outcome \in {"ok", "error"} : ResponderReturns(k, outcome)
  \/ \E k \in SendIds : RemovalTimerFires(k)

RecoverySpec == RecoveryInit /\ [][RecoveryNext]_vars

\* the removal timer of send k leaves the set of timers that are set; of the
\* steps of the program RemovalTimerFires(k) alone does that, and it can be
\* taken whenever the timer is set
RemovalTimerGone(k) == k \in removalTimers /\ removalTimers' = removalTimers \ {k}

\* a timer that is set fires: the 500 ms removal timer of a send that succeeded
RecoveryFairSpec ==
  RecoverySpec /\ \A k \in SendIds : WF_removalTimers(RemovalTimerGone(k))

\* the user moves between conversations while sends are in flight and the
\* channel delivers
SwitchNext ==
  \/ \E c \in ConvIds : SelectConversation(c)
  \/ NewConversation
  \/ \E c \in ConvIds : Subscribed(c)
  \/ \E c \in ConvIds : InsertNextEvent(c)
  \/ UserSend(<<1>>, NoFile)
  \/ \E k \in SendIds : TypingDelayElapses(k)
  \/ \E k \in SendIds, outcome \in {"ok", "error"} : ResponderReturns(k, outcome)
  \/ \E k \in SendIds : RemovalTimerFires(k)

SwitchSpec == OpenInit /\ [][SwitchNext]_vars

\* rows persisted while no channel of this client was joined (before the page
\* loaded, or while the link was down): the realtime service pushes no INSERT
\* for them, the one-shot load alone can bring them
LoadNext ==
  \/ \E c \in ConvIds : SelectConversation(c)
  \/ NewConversation
  \/ \E c \in ConvIds, ok \in BOOLEAN : FetchReturns(c, ok)
  \/ \E c \in ConvIds : Subscribed(c)
  \/ \E c \in ConvIds : ChannelError(c)
  \/ RetryTimerFires
  \/ \E c \in ConvIds : OrphanTimerFires(c)

LoadSpec == StoredInit /\ [][LoadNext]_vars

\* the messages query of conversation c returns without error; of the steps of
\* the program FetchReturns(c, TRUE) alone does that, and it can be taken
\* whenever the query is in flight
FetchSucceeds(c) ==
  /\ c \in fetching
  /\ fetching' = fetching \ {c}
  /\ queryData' = [queryData EXCEPT ![c] = InvokeGetConversations(Cur, [conversationId |-> c])]

\* a query in flight returns, and returns without error
LoadFairSpec ==
  LoadSpec /\ \A c \in ConvIds : WF_<<fetching, queryData>>(FetchSucceeds(c))

\* a row is persisted in the conversation
PersistRow ==
  /\ Cardinality(stored) < MaxHistory
  /\ stored' = stored \cup {Cardinality(stored) + 1}
  /\ Install(Event(Cur, "messages.insert"))
  /\ UNCHANGED context

\* chat-with-ai reads the history of the conversation and composes the context
HistoryRead ==
  /\ context' = HistoryQuery(stored)
  /\ Install(Event(Cur, "chat-with-ai"))
  /\ UNCHANGED stored

\* the history query of the responder over a growing conversation
ContextNext == PersistRow \/ HistoryRead

ContextSpec == OpenInit /\ [][ContextNext]_vars

\* the 300 ms delay of send k elapses and the responder is invoked; of the
\* steps of the program TypingDelayElapses alone raises the count
InvokeStarts(k) == sends[k].pc = "typing" /\ invocations' = invocations + 1

\* the responder call of send k returns; of the steps of the program
\* ResponderReturns alone leaves this record of the last event
InvokeReturns(k) ==
  /\ sends[k].pc = "invoke"
  /\ lastEvent' \in {[Event(Cur, "responderReturns").lastEvent EXCEPT !.notices = n] :
                       n \in SUBSET {"Message failed to send", "Error"}}

\* timers fire and network calls return
RecoveryLiveSpec ==
  /\ RecoveryFairSpec
  /\ \A k \in SendIds : WF_invocations(InvokeStarts(k)) /\ WF_lastEvent(InvokeReturns(k))

Next == LinkNext \/ StoreNext \/ SendNext \/ LifecycleNext \/ RecoveryNext \/ SwitchNext
          \/ LoadNext \/ ContextNext

Spec == Init /\ [][Next]_vars

(* ------------------------------ properties ------------------------------ *)
\* the ids of a message list, in order
Ids(msgs) == [i \in 1..Len(msgs) |-> msgs[i].id]

\* some retry timer is scheduled, held by retryTimeoutRef or not
RetryPending ==
  retryTimeoutRef \in ConvIds \/ \E c \in ConvIds : orphanTimers[c] > 0

C1_NoDuplicates ==
  \A i, j \in 1..Len(messages) : messages[i].id = messages[j].id => i = j

C1_EventStep ==
  /\ lastEvent'.name = "INSERT" =>
       \/ messages' = messages
       \/ /\ messages' = Append(messages, messages'[Len(messages')])
          /\ ~HasId(messages, messages'[Len(messages')].id)
  /\ lastEvent'.name = "UPDATE" =>
       /\ Ids(messages') = Ids(messages)
       /\ \A i \in 1..Len(messages) :
            messages'[i] # messages[i] => messages'[i].content = UpdatedText

\* C1: under INSERT and UPDATE events in any order and with redelivery, the
\* Message Store never holds two entries with the same id; an INSERT leaves the
\* list as it is when the id is present and appends one entry otherwise; an
\* UPDATE replaces entries in place and never changes the list's ids.
C1_Theorem == []C1_NoDuplicates /\ [][C1_EventStep]_vars

\* an INSERT event was handled by a store of two or more entries, one of them
\* replaced by an UPDATE before
C1_Witness ==
  /\ lastEvent.name = "INSERT"
  /\ Len(messages) >= 2
  /\ \E i \in 1..Len(messages) : messages[i].content = UpdatedText

\* C2: the live message channels are exactly one for the selected conversation
\* and none for any other, at every moment, also when a backoff retry or a
\* forced reconnect interleaves with a conversation switch.
C2_Claim ==
  \A c \in ConvIds : channels[c] = IF c = currentConversationId THEN 1 ELSE 0

\* C3: once MAX_RETRIES retries have run and the channel failed again, no
\* further automatic retry is scheduled or runs: the retry counter never passes
\* MAX_RETRIES, and with the counter exhausted and subscriptionStatus 'error' no
\* retry timer is pending that would take the status out of 'error'.
C3_Claim ==
  /\ retryCountRef <= MAX_RETRIES
  /\ (retryCountRef >= MAX_RETRIES /\ subscriptionStatus = "error") => ~RetryPending

\* the rows stored for the selected conversation
StoredRows == db[currentConversationId]

\* the recovery invocations made for the selected conversation
RecoveriesOfCurrent ==
  SelectSeq(recoveryCalls, LAMBDA b : b.conversationId = currentConversationId)

\* C4: once the messages query of the selected conversation has returned, a
\* stored history ending in a 'user' message has led to exactly one recovery
\* invocation of the responder, carrying that message's content, its image URL
\* and the replay flag; a history ending in an 'assistant' message to none.
C4_Claim ==
  (/\ currentConversationId # NoConv
   /\ queryData[currentConversationId] # Undefined
   /\ currentConversationId \notin fetching
   /\ Len(StoredRows) > 0)
  => IF StoredRows[Len(StoredRows)].role = "user"
     THEN /\ Len(RecoveriesOfCurrent) = 1
          /\ RecoveriesOfCurrent[1] =
               [message |-> StoredRows[Len(StoredRows)].content,
                conversationId |-> currentConversationId,
                imageUrl |-> StoredRows[Len(StoredRows)].image_url,
                isRetry |-> TRUE]
     ELSE Len(RecoveriesOfCurrent) = 0

\* the pair mutation k was started with
SendPayload(k) == Payload(sends[k].message, sends[k].imageFile)

\* mutation k fails in this step, its placeholders inserted and its responder
\* call made
ResponderFails(k) == sends[k].pc = "invoke" /\ sends'[k].pc = "failed"

\* C5 as stated: whenever a send attempt fails after its optimistic
\* placeholders were inserted, Pending Send is exactly the (text, file) pair
\* of that attempt.
C5_Claim ==
  [][\A k \in SendIds : ResponderFails(k) => pendingMessage' = SendPayload(k)]_vars

\* C5 amended: when a send attempt fails after its optimistic placeholders
\* were inserted, and while it was in flight no other handleSendMessage call
\* was made and no other send attempt completed, Pending Send is exactly the
\* (text, file) pair of that attempt.
C5_Theorem ==
  [][\A k \in SendIds :
       (ResponderFails(k) /\ ~sends[k].overlapped) => pendingMessage' = SendPayload(k)]_vars

\* a responder failure has just left the payload of its attempt held, the
\* optimistic message of that attempt in the store
C5_Witness ==
  /\ lastEvent.name = "responderReturns"
  /\ \E k \in SendIds : /\ sends[k].pc = "failed"
                        /\ HasId(messages, OptimisticId(k))
                        /\ pendingMessage = SendPayload(k)

\* C6: a handleSendMessage call made while the browser is offline records
\* {text, file} as Pending Send, makes no upload and no responder call, leaves
\* the Message Store unchanged, and the connection status shows 'disconnected'.
C6_Claim ==
  [][(lastEvent'.sent # NoPending /\ ~online') =>
       /\ pendingMessage' = lastEvent'.sent
       /\ uploads' = uploads /\ invocations' = invocations /\ sendCount' = sendCount
       /\ messages' = messages
       /\ connectionStatus' = "disconnected"]_vars

C7_OnlineStep ==
  (~online /\ online') =>
    IF pendingMessage # NoPending
    THEN /\ sendCount' = sendCount + 1
         /\ Payload(sends'[sendCount'].message, sends'[sendCount'].imageFile) = pendingMessage
         /\ sends'[sendCount'].pc \in {"upload", "typing"}
         /\ lastEvent'.sent = pendingMessage
    ELSE /\ sendCount' = sendCount
         /\ lastEvent'.sent = NoPending
         /\ uploads' = uploads /\ invocations' = invocations
         /\ pendingMessage' = NoPending

\* C7: the browser's online event with a Pending Send held starts exactly one
\* send attempt, with exactly the held payload; with none held it starts no
\* send attempt.
C7_Theorem == [][C7_OnlineStep]_vars

\* the online handler has just replayed a held payload
C7_Witness ==
  /\ lastEvent.name = "handleOnlineStatus"
  /\ lastEvent.sent # NoPending
  /\ sendCount > 0 /\ SendPayload(sendCount) = lastEvent.sent

C8_DeleteStep ==
  (deleteMutation # NoConv /\ deleteMutation' = NoConv) =>
    IF deleteMutation \notin DOMAIN conversations'
    THEN /\ currentConversationId' = NoConv
         /\ messages' = << >>
         /\ localStorageKey' = NoConv
         /\ conversationsStale'
    ELSE /\ currentConversationId' = currentConversationId
         /\ messages' = messages

\* C8: when the deletion of a conversation succeeds the active conversation id
\* becomes none, the Message Store is emptied, the persisted session key is
\* removed and the conversation list is invalidated; when it fails the active
\* id and the Message Store are unchanged.
C8_Theorem == [][C8_DeleteStep]_vars

\* conversation 1 has just been deleted while conversation 2 is kept
C8_Witness ==
  /\ lastEvent.name = "deleteReturns"
  /\ 1 \notin DOMAIN conversations /\ 2 \in DOMAIN conversations
  /\ currentConversationId = NoConv

\* t is m when m has at most TITLE_LIMIT characters, else the first
\* TITLE_LIMIT characters of m followed by three dots
TitleRule(m, t) ==
  IF Len(m) <= TITLE_LIMIT THEN t = m
  ELSE /\ Len(t) = TITLE_LIMIT + 3
       /\ \A i \in 1..TITLE_LIMIT : t[i] = m[i]
       /\ \A i \in (TITLE_LIMIT + 1)..(TITLE_LIMIT + 3) : t[i] = Dot

C9_StartStep ==
  /\ (startMutation.pc = "inserting" /\ startMutation'.pc = "animating") =>
       /\ startMutation'.id \notin DOMAIN conversations
       /\ startMutation'.id \in DOMAIN conversations'
       /\ conversations'[startMutation'.id] = startMutation.title
       /\ currentConversationId' = currentConversationId
  /\ (startMutation.pc = "inserting" /\ startMutation'.pc = "idle") =>
       /\ conversations' = conversations
       /\ currentConversationId' = currentConversationId
  /\ (startMutation.pc = "animating" /\ startMutation'.pc = "hiding") =>
       /\ currentConversationId' = startMutation.id
       /\ conversations[startMutation.id] = startMutation.title
  /\ (currentConversationId' # currentConversationId /\ currentConversationId' # NoConv) =>
       currentConversationId' \in DOMAIN conversations

\* C9: a conversation started from first message m gets the title m when m has
\* at most 30 characters and the first 30 characters of m followed by "..."
\* otherwise; the row is created with that title; the new row's id becomes the
\* active conversation only after its creation succeeded, and a failed
\* creation leaves the active id as it was.
C9_Theorem ==
  /\ [](startMutation.pc # "idle" => TitleRule(startMutation.message, startMutation.title))
  /\ [][C9_StartStep]_vars

\* a conversation created from a message longer than the limit has become the
\* active one, under its truncated title
C9_Witness ==
  /\ lastEvent.name = "startSuccess"
  /\ Len(startMutation.message) > TITLE_LIMIT
  /\ currentConversationId = startMutation.id
  /\ Len(conversations[currentConversationId]) = TITLE_LIMIT + 3

C10_BlankStep ==
  (/\ lastEvent'.name = "ChatInput.handleSendMessage"
   /\ Trim(lastEvent'.request.message) = << >>
   /\ lastEvent'.request.imageFile = NoFile)
  => /\ lastEvent'.sent = NoPending
     /\ pendingMessage' = pendingMessage
     /\ messages' = messages
     /\ sends' = sends /\ sendCount' = sendCount
     /\ uploads' = uploads /\ invocations' = invocations

\* C10: a send request whose text is empty or whitespace only and that carries
\* no file does nothing: no Pending Send is recorded, no placeholder is
\* inserted, no upload and no responder call is made.
C10_Theorem == [][C10_BlankStep]_vars

\* ChatInput has just been submitted with a whitespace-only text and no file
C10_Witness ==
  /\ lastEvent.name = "ChatInput.handleSendMessage"
  /\ lastEvent.request = Payload(<<Space>>, NoFile)
  /\ lastEvent.sent = NoPending

\* the callback of a retry timer runs in this step
RetryFires == lastEvent'.name \in {"retryTimer", "orphanTimer"}

\* C11: when the subscription enters 'error' with fewer than MAX_RETRIES
\* automatic attempts used, a backoff timer is scheduled; while the selection
\* stays as it is, the scheduled timer is pending until it fires: no other
\* event, the re-render caused by the status change included, cancels it.
C11_Claim ==
  [][/\ (/\ lastEvent'.name = "CHANNEL_ERROR"
         /\ subscriptionStatus # "error" /\ subscriptionStatus' = "error"
         /\ retryCountRef < MAX_RETRIES)
        => retryTimeoutRef' \in ConvIds
     /\ (/\ retryTimeoutRef \in ConvIds
         /\ currentConversationId' = currentConversationId
         /\ ~RetryFires)
        => retryTimeoutRef' \in ConvIds]_vars

\* C12: every transition of the subscription to 'active' leaves the automatic
\* retry counter at 0.
C12_Claim ==
  [][(subscriptionStatus # "active" /\ subscriptionStatus' = "active")
       => retryCountRef' = 0]_vars

\* C13: a backoff timer scheduled for a conversation is pending only while
\* that conversation is the selected one, and a timer that fires subscribes
\* for the selected conversation only.
C13_Claim ==
  /\ [](\A c \in ConvIds :
          (retryTimeoutRef = c \/ orphanTimers[c] > 0) => c = currentConversationId)
  /\ [][RetryFires =>
          /\ currentConversationId' # NoConv
          /\ realtimeChannelRef' = currentConversationId']_vars

\* C15: from the offline event to the next online event the connection status
\* shown is 'disconnected', whatever else happens in between.
C15_Claim == ~online => connectionStatus = "disconnected"

\* C16: the step of an online event calls setupRealtimeSubscription for the
\* selected conversation when the subscription status is 'error' and a
\* conversation is selected; otherwise it makes no such call and leaves the
\* channels, the channel reference, the channel's state and the subscription
\* status as they were
C16_Theorem ==
  [][lastEvent'.name = "handleOnlineStatus" =>
       IF subscriptionStatus = "error" /\ currentConversationId # NoConv
       THEN /\ lastEvent'.subscribed = currentConversationId
            /\ realtimeChannelRef' = currentConversationId
            /\ channelState' = "joining"
       ELSE /\ lastEvent'.subscribed = NoConv
            /\ channels' = channels
            /\ realtimeChannelRef' = realtimeChannelRef
            /\ channelState' = channelState
            /\ subscriptionStatus' = subscriptionStatus]_vars

\* an online event has just re-issued the subscription of the selected
\* conversation, which was in 'error'
C16_Witness ==
  /\ lastEvent.name = "handleOnlineStatus"
  /\ lastEvent.subscribed = currentConversationId
  /\ currentConversationId # NoConv
  /\ subscriptionStatus = "inactive"

UploadFails(k) == sends[k].pc = "upload" /\ sends'[k].pc = "failed"

\* mutation k has ended at its upload
FailedAtUpload(k) ==
  sends[k].pc = "failed" /\ sends[k].imageFile # NoFile /\ sends[k].imageUrl = NoUrl

\* C17 as stated: when the image upload of a send fails, the Message Store is
\* left as it was and holds neither an optimistic user message nor an
\* assistant placeholder of that send, then and ever after; the responder is
\* not invoked; and Pending Send holds the (text, file) of that send.
C17_Claim ==
  /\ [](\A k \in SendIds : FailedAtUpload(k) =>
          ~HasId(messages, OptimisticId(k)) /\ ~HasId(messages, TempId(k)))
  /\ [][\A k \in SendIds : UploadFails(k) =>
          /\ messages' = messages
          /\ invocations' = invocations
          /\ pendingMessage' = SendPayload(k)]_vars

\* C17 amended: the same, Pending Send holding the (text, file) of that send
\* when, while that send was in flight, no other handleSendMessage call was
\* made and no other send attempt completed.
C17_Theorem ==
  /\ [](\A k \in SendIds : FailedAtUpload(k) =>
          ~HasId(messages, OptimisticId(k)) /\ ~HasId(messages, TempId(k)))
  /\ [][\A k \in SendIds : UploadFails(k) =>
          /\ messages' = messages
          /\ invocations' = invocations
          /\ ~sends[k].overlapped => pendingMessage' = SendPayload(k)]_vars

\* an upload has just failed and the payload of its send is held
C17_Witness ==
  /\ lastEvent.name = "uploadReturns"
  /\ \E k \in SendIds : FailedAtUpload(k) /\ pendingMessage = SendPayload(k)

\* mutation k succeeds in this step
SendSucceeds(k) == sends[k].pc = "invoke" /\ sends'[k].pc = "ok"

\* the store holds neither the optimistic user message nor the assistant
\* placeholder of mutation k
PlaceholdersGone(k) ==
  ~HasId(messages, OptimisticId(k)) /\ ~HasId(messages, TempId(k))

\* C18: the step in which a send succeeds clears Pending Send and sets the
\* removal timer of that send; the timer set, the store comes to hold neither
\* the optimistic user message nor the placeholder of that send, and holds
\* neither of them from the firing of the timer on, whether the rows of the
\* exchange were delivered or not
C18_Theorem ==
  /\ [][\A k \in SendIds : SendSucceeds(k) =>
          pendingMessage' = NoPending /\ k \in removalTimers']_vars
  /\ \A k \in SendIds : (sends[k].pc = "ok") ~> (k \notin removalTimers /\ PlaceholdersGone(k))
  /\ [](\A k \in SendIds :
          (sends[k].pc = "ok" /\ k \notin removalTimers) => PlaceholdersGone(k))

\* the removal timer of a send that succeeded has just fired, no row of the
\* exchange delivered, and the placeholders of that send are gone
C18_Witness ==
  /\ lastEvent.name = "removalTimer"
  /\ pendingMessage = NoPending
  /\ \E k \in SendIds : /\ sends[k].pc = "ok" /\ k \notin removalTimers
                        /\ PlaceholdersGone(k)
                        /\ \A i \in 1..Len(messages) : ~IsServerId(messages[i].id)

\* mutation k fails in this step, at its upload or at its responder call
SendFails(k) == sends[k].pc \in {"upload", "invoke"} /\ sends'[k].pc = "failed"

\* the error toasts of the send pipeline: mutationFn's catch and onError
PipelineNotices == {"Message failed to send", "Error"}

\* C19: the step in which a send fails raises no toast of the send pipeline
\* when the browser is offline and raises one when it is online, and leaves
\* Pending Send as it was.
C19_Claim ==
  [][\A k \in SendIds : SendFails(k) =>
       /\ ~online => lastEvent'.notices \cap PipelineNotices = {}
       /\ online => lastEvent'.notices \cap PipelineNotices # {}
       /\ pendingMessage' = pendingMessage]_vars

\* a retry runs in this step: handleRetryMessage from a click or from the
\* timer of handleForceReconnect, or the online handler
RetryStep == lastEvent'.name \in RetryEvents

\* C20: a retry made while a payload is held hands that payload to
\* handleSendMessage; refused offline, it leaves that payload held; the send it
\* starts leaves its payload held when it fails; and while that send is in
\* flight Pending Send becomes empty only in the step in which it succeeds.
C20_Claim ==
  [][/\ (RetryStep /\ pendingMessage # NoPending) => lastEvent'.sent = pendingMessage
     /\ (RetryStep /\ lastEvent'.sent # NoPending /\ ~online')
           => pendingMessage' = lastEvent'.sent
     /\ \A k \in SendIds :
          /\ (sends[k].replay /\ SendFails(k)) => pendingMessage' = SendPayload(k)
          /\ (sends[k].replay /\ InFlight(Cur, k) /\ pendingMessage' = NoPending)
                => SendSucceeds(k)]_vars

\* C21: the step in which a send issued with the id of an existing
\* conversation succeeds leaves the active conversation id as it was, whatever
\* the user selected while the send was in flight.
C21_Claim ==
  [][\A k \in SendIds : (SendSucceeds(k) /\ sends[k].conv # NoConv)
        => currentConversationId' = currentConversationId]_vars

\* the message m of the store is a row of conversation c
RowOf(m, c) == \E j \in 1..Len(db[c]) : ServerId(db[c][j].id) = m.id

\* row i of conversation c is in the message store
RowShown(c, i) == i \in 1..Len(db[c]) /\ HasId(messages, ServerId(db[c][i].id))

\* C22: every row persisted for the active conversation comes to be in the
\* Message Store, or the conversation stops being the active one.
C22_Claim ==
  \A c \in ConvIds, i \in RowIds :
    (currentConversationId = c /\ i \in 1..Len(db[c]))
      ~> (RowShown(c, i) \/ currentConversationId # c)

\* C23: with a conversation selected, every server message in the Message
\* Store is a row of that conversation.
C23_Claim ==
  currentConversationId # NoConv =>
    \A i \in 1..Len(messages) :
      IsServerId(messages[i].id) => RowOf(messages[i], currentConversationId)

\* the n rows of greatest created_at, in creation order
MostRecent(rows, n) ==
  LET all == OrderAscending(rows)
  IN SubSeq(all, IF Len(all) > n THEN Len(all) - n + 1 ELSE 1, Len(all))

\* C24: for a conversation of more than 20 stored rows, the history
\* chat-with-ai composes is the 20 most recent rows in creation order.
C24_Claim ==
  [][(lastEvent'.name = "chat-with-ai" /\ Cardinality(stored) > HISTORY_LIMIT)
       => context' = MostRecent(stored, HISTORY_LIMIT)]_vars

\* the messages query of conversation c returns without error in this step
LoadCompletes(c) ==
  /\ lastEvent'.name = "messagesQuery"
  /\ c \in fetching /\ c \notin fetching'
  /\ queryData'[c] # Undefined

\* C25: when the one-shot load of the selected conversation returns, the
\* answer of get-conversations is the list of the rows of that conversation in
\* creation order, and the Message Store is that list.
C25_Claim ==
  [][\A c \in ConvIds : (LoadCompletes(c) /\ c = currentConversationId) =>
       /\ queryData'[c] = [kind |-> "messages",
                           messages |-> [i \in 1..Len(db[c]) |-> RowMessage(db[c][i])]]
       /\ messages' = [i \in 1..Len(db[c]) |-> RowMessage(db[c][i])]]_vars

\* C26: at most one backoff timer is scheduled at any time: the one
\* retryTimeoutRef refers to, or one whose handle was lost, never both and
\* never two of the latter.
C26_Claim ==
  /\ retryTimeoutRef \in ConvIds => \A c \in ConvIds : orphanTimers[c] = 0
  /\ \A c, d \in ConvIds :
       /\ orphanTimers[c] <= 1
       /\ (orphanTimers[c] > 0 /\ orphanTimers[d] > 0) => c = d

\* C27: the step in which the removal timer of a send fires leaves in the
\* Message Store the optimistic user message and the placeholder of every
\* other send.
C27_Claim ==
  [][\A k \in SendIds : (k \in removalTimers /\ k \notin removalTimers') =>
       \A j \in SendIds \ {k} :
         /\ HasId(messages, OptimisticId(j)) => HasId(messages', OptimisticId(j))
         /\ HasId(messages, TempId(j)) => HasId(messages', TempId(j))]_vars

\* C28: whenever the connection status is 'reconnecting' it later becomes
\* 'connected' or 'disconnected'.
C28_Claim ==
  (connectionStatus = "reconnecting") ~> (connectionStatus \in {"connected", "disconnected"})

\* C29: the delayed handleRetryMessage of a forced reconnect starts a send
\* only for the payload that Pending Send holds at that moment, and only when
\* no send of that payload is in flight: a payload replayed by the online
\* handler or by a click on Retry is not sent a second time, and a payload
\* that was delivered and cleared is not sent again.
C29_Claim ==
  [][(lastEvent'.name = "forcedRetry" /\ sendCount' = sendCount + 1) =>
       /\ pendingMessage = lastEvent'.sent
       /\ \A k \in SendIds : InFlight(Cur, k) => SendPayload(k) # lastEvent'.sent]_vars

\* no responder call is in flight and none is about to be made
Quiescent ==
  /\ \A k \in SendIds : ~InFlight(Cur, k)
  /\ forcedRetryTimers = {}

========================================================================
